---- MODULE Spec2Model ----
(***************************************************************************)
(* A model of the compression kernel of akhilles/zopfli (Rust port):       *)
(*   cache.rs      the longest-match cache and its sublen table            *)
(*   lz77.rs       the LZ77 store, its cumulative histograms, its export   *)
(*                 to and import from a ZopfliLZ77Store                    *)
(*   katajainen.rs the length-limited code-length assignment and           *)
(*                 ExtractBitLengths                                       *)
(*   deflate.rs    fixed tree, OptimizeHuffmanForRle, distance-code patch, *)
(*                 block symbol size                                       *)
(*   squeeze.rs    the fixed-tree cost model                               *)
(* Rust arrays and Vecs are functions on 0..n-1, so every index of the     *)
(* model is the index of the source.                                       *)
(***************************************************************************)
EXTENDS Integers, Sequences, FiniteSets, TLC

VARIABLES
    lmc,        \* ZopfliLongestMatchCache: [length, dist, sublen]
    sublen,     \* the caller's sublen buffer (c_ushort[259]) passed to the cache
    lastWrite,  \* history: per position, the last (sublen, length) stored with length >= 3
    cacheOp,    \* history: the cache call that ran last and what it computed
    store,      \* Lz77Store
    pc,         \* position of the caller of a pure function
    call,       \* the arguments of the call
    ret         \* what the call returned

vars == <<lmc, sublen, lastWrite, cacheOp, store, pc, call, ret>>
cacheVars == <<lmc, sublen, lastWrite, cacheOp>>
pureVars == <<pc, call, ret>>

(***************************************************************************)
(* Helpers for 0-based arrays.                                             *)
(***************************************************************************)
VecLen(a) == Cardinality(DOMAIN a)
EmptyVec == [i \in {} |-> 0]

\* the value of an entry read from memory the program does not own (past the end
\* of a buffer, or in a buffer that was freed): any value at all.  The model
\* never computes with it and never takes it for a count.
Unspecified == -1
\* a buffer after free(): as long as before, every entry unspecified
Freed(buf) == [i \in DOMAIN buf |-> Unspecified]
\* Vec::push
Push(a, x) == a @@ (VecLen(a) :> x)
Zeros(n) == [i \in 0..(n - 1) |-> 0]

CeilDiv(a, b) == (a + b - 1) \div b
Min(a, b) == IF a <= b THEN a ELSE b

RECURSIVE Pow2(_)
Pow2(k) == IF k <= 0 THEN 1 ELSE 2 * Pow2(k - 1)

RECURSIVE SumRange(_, _, _)
\* the sum of f[lo] .. f[hi-1]
SumRange(f, lo, hi) ==
    IF hi <= lo THEN 0
    ELSE IF hi = lo + 1 THEN f[lo]
    ELSE LET mid == (lo + hi) \div 2
         IN  SumRange(f, lo, mid) + SumRange(f, mid, hi)

(***************************************************************************)
(* util.rs / symbols.rs: tunables and the DEFLATE symbol tables            *)
(* (RFC 1951, section 3.2.5).                                              *)
(***************************************************************************)
ZOPFLI_CACHE_LENGTH == 8
ZOPFLI_NUM_LL == 288
ZOPFLI_NUM_D == 32
ZOPFLI_MAX_MATCH == 258

\* the base-2 logarithm of x, rounded down, for x >= 1
RECURSIVE Log2Floor(_)
Log2Floor(x) == IF x <= 1 THEN 0 ELSE 1 + Log2Floor(x \div 2)

ZopfliGetLengthSymbol(l) ==
    IF l <= 10 THEN 254 + l
    ELSE IF l <= 18 THEN 265 + (l - 11) \div 2
    ELSE IF l <= 34 THEN 269 + (l - 19) \div 4
    ELSE IF l <= 66 THEN 273 + (l - 35) \div 8
    ELSE IF l <= 130 THEN 277 + (l - 67) \div 16
    ELSE IF l <= 257 THEN 281 + (l - 131) \div 32
    ELSE 285

ZopfliGetLengthExtraBits(l) ==
    IF l <= 10 THEN 0
    ELSE IF l <= 18 THEN 1
    ELSE IF l <= 34 THEN 2
    ELSE IF l <= 66 THEN 3
    ELSE IF l <= 130 THEN 4
    ELSE IF l <= 257 THEN 5
    ELSE 0

ZopfliGetLengthSymbolExtraBits(s) ==
    IF s < 265 \/ s >= 285 THEN 0 ELSE (s - 261) \div 4

ZopfliGetDistSymbol(dist) ==
    IF dist < 5 THEN dist - 1
    ELSE LET l == Log2Floor(dist - 1)
             r == ((dist - 1) \div Pow2(l - 1)) % 2
         IN  l * 2 + r

ZopfliGetDistExtraBits(dist) ==
    IF dist < 5 THEN 0 ELSE Log2Floor(dist - 1) - 1

ZopfliGetDistSymbolExtraBits(s) ==
    IF s < 4 THEN 0 ELSE (s - 2) \div 2

(***************************************************************************)
(* cache.rs                                                                *)
(***************************************************************************)
\* ZopfliLongestMatchCache::new: the three malloc'ed arrays; freed tells whether
\* free() has been called on them
ZopfliLongestMatchCacheNew(blocksize) ==
    [ length |-> [p \in 0..(blocksize - 1) |-> 1],
      dist   |-> [p \in 0..(blocksize - 1) |-> 0],
      sublen |-> Zeros(ZOPFLI_CACHE_LENGTH * 3 * blocksize),
      freed  |-> FALSE ]

\* ZopfliCleanCache(lmc): the three arrays are freed; the struct keeps its three
\* pointers, which dangle
ZopfliCleanCache(c) ==
    [ length |-> Freed(c.length),
      dist   |-> Freed(c.dist),
      sublen |-> Freed(c.sublen),
      freed  |-> TRUE ]

\* on a cleaned cache the two bytes tested and the byte returned are unspecified
ZopfliMaxCachedSublen(c, pos) ==
    LET start == ZOPFLI_CACHE_LENGTH * pos * 3
    IN  IF c.freed THEN Unspecified
        ELSE IF c.sublen[start + 1] = 0 /\ c.sublen[start + 2] = 0
        THEN 0
        ELSE c.sublen[start + (ZOPFLI_CACHE_LENGTH - 1) * 3] + 3

RECURSIVE CacheToSublenLoop(_, _, _, _, _, _)
\* the for loop of ZopfliCacheToSublen, from slot j on
CacheToSublenLoop(c, start, maxlength, j, prevlength, buf) ==
    IF j >= ZOPFLI_CACHE_LENGTH THEN buf
    ELSE LET length == c.sublen[start + j * 3] + 3
             dist   == (c.sublen[start + j * 3 + 1]
                        + 256 * c.sublen[start + j * 3 + 2]) % 65536
             buf2   == [i \in DOMAIN buf |->
                          IF prevlength <= i /\ i <= length THEN dist ELSE buf[i]]
         IN  IF length = maxlength THEN buf2
             ELSE CacheToSublenLoop(c, start, maxlength, j + 1, length + 1, buf2)

\* the buffer after ZopfliCacheToSublen(lmc, pos, length, buf); from a cleaned
\* cache the loop copies unspecified distances up to unspecified lengths
ZopfliCacheToSublen(c, pos, length, buf) ==
    IF length < 3 THEN buf
    ELSE IF c.freed THEN Freed(buf)
    ELSE CacheToSublenLoop(c, ZOPFLI_CACHE_LENGTH * pos * 3,
                           ZopfliMaxCachedSublen(c, pos), 0, 0, buf)

\* a slip: the low byte of the distance stored in both distance bytes
StoreSublenEntryLowTwice(bytes, start, j, i, d) ==
    [bytes EXCEPT ![start + j * 3]     = (i - 3) % 256,
                  ![start + j * 3 + 1] = d % 256,
                  ![start + j * 3 + 2] = d % 256]

\* a slip: the position's offset left out, so every entry lands in position 0
StoreSublenEntryNoStart(bytes, start, j, i, d) ==
    [bytes EXCEPT ![j * 3]     = (i - 3) % 256,
                  ![j * 3 + 1] = d % 256,
                  ![j * 3 + 2] = (d \div 256) % 256]

\* one recorded entry: the three bytes of slot j
StoreSublenEntry(bytes, start, j, i, d) ==
    [bytes EXCEPT ![start + j * 3]     = (i - 3) % 256,
                  ![start + j * 3 + 1] = d % 256,
                  ![start + j * 3 + 2] = (d \div 256) % 256]

\* the condition under which the while loop of ZopfliSublenToCache records index i
SublenTransition(buf, length, i) == i = length \/ buf[i] # buf[i + 1]

RECURSIVE SublenToCacheLoop(_, _, _, _, _, _, _)
\* the while loop of ZopfliSublenToCache, from index i on: it steps to the next
\* index it records, stores the entry, and stops after ZOPFLI_CACHE_LENGTH entries
SublenToCacheLoop(buf, start, length, i, j, bestlength, bytes) ==
    IF \A k \in i..length : ~SublenTransition(buf, length, k)
    THEN [bytes |-> bytes, j |-> j, bestlength |-> bestlength]
    ELSE LET t  == CHOOSE k \in i..length :
                       /\ SublenTransition(buf, length, k)
                       /\ \A m \in i..(k - 1) : ~SublenTransition(buf, length, m)
             b2 == StoreSublenEntry(bytes, start, j, t, buf[t])
         IN  IF j + 1 >= ZOPFLI_CACHE_LENGTH
             THEN [bytes |-> b2, j |-> j + 1, bestlength |-> t]
             ELSE SublenToCacheLoop(buf, start, length, t + 1, j + 1, t, b2)

\* a slip: the ceiling marker left out
SublenCeilingNoMarker(bytes, start, j, bestlength) == bytes

\* a slip: the ceiling marker stored without the offset of 3
SublenCeilingNoOffset(bytes, start, j, bestlength) ==
    IF j < ZOPFLI_CACHE_LENGTH
    THEN [bytes EXCEPT ![start + (ZOPFLI_CACHE_LENGTH - 1) * 3] = bestlength % 256]
    ELSE bytes

\* the epilogue of ZopfliSublenToCache: the ceiling marker in the last slot
SublenCeiling(bytes, start, j, bestlength) ==
    IF j < ZOPFLI_CACHE_LENGTH
    THEN [bytes EXCEPT ![start + (ZOPFLI_CACHE_LENGTH - 1) * 3] = (bestlength - 3) % 256]
    ELSE bytes

\* ZopfliSublenToCache(buf, pos, length, lmc): the cache after the call and the
\* values its three assertions test.  In a cleaned cache the entries go to freed
\* memory, which stays unspecified; j and bestlength come from buf alone.
ZopfliSublenToCache(buf, pos, length, c) ==
    IF length < 3
    THEN [lmc |-> c, stored |-> FALSE, j |-> 0, bestlength |-> 0,
          assert_eq |-> TRUE, assert_le |-> TRUE, assert_max |-> TRUE]
    ELSE IF c.freed
    THEN LET r == SublenToCacheLoop(buf, ZOPFLI_CACHE_LENGTH * pos * 3, length, 3, 0, 0,
                                    Zeros(VecLen(c.sublen)))
         IN  [lmc |-> c, stored |-> FALSE, j |-> r.j, bestlength |-> r.bestlength,
              assert_eq |-> TRUE, assert_le |-> TRUE, assert_max |-> TRUE]
    ELSE LET start == ZOPFLI_CACHE_LENGTH * pos * 3
             r     == SublenToCacheLoop(buf, start, length, 3, 0, 0, c.sublen)
             c2    == [c EXCEPT !.sublen = SublenCeiling(r.bytes, start, r.j, r.bestlength)]
         IN  [lmc |-> c2, stored |-> TRUE, j |-> r.j, bestlength |-> r.bestlength,
              assert_eq  |-> (r.j < ZOPFLI_CACHE_LENGTH) => (r.bestlength = length),
              assert_le  |-> (r.j >= ZOPFLI_CACHE_LENGTH) => (r.bestlength <= length),
              assert_max |-> r.bestlength = ZopfliMaxCachedSublen(c2, pos)]

ZopfliCacheLengthAt(c, pos) == c.length[pos]
ZopfliCacheDistAt(c, pos) == c.dist[pos]

(***************************************************************************)
(* The cache's callers: a block of BlockSize positions, at most MaxWrites  *)
(* ZopfliSublenToCache calls, any number of ZopfliCacheToSublen calls.     *)
(***************************************************************************)
BlockSize == 2
MaxWrites == 2

Positions == 0..(BlockSize - 1)
SublenIndices == 0..ZOPFLI_MAX_MATCH

\* distances whose low byte, high byte or both are zero or not
SampleDists == <<1, 256, 32768, 511>>
\* how many equal consecutive sublen entries: every length a transition, or few
SampleRuns == {1, 64}
\* 2: refused; 9: fewer than K entries; 10: exactly K; 11: more; 258: the largest
SampleLengths == {2, 9, 10, 11, ZOPFLI_MAX_MATCH}

\* a sublen array: the distance changes every run lengths, cycling SampleDists
SublenPattern(run) ==
    [i \in SublenIndices |->
        IF i < 3 THEN 0
        ELSE SampleDists[((((i - 3) \div run) + run) % Len(SampleDists)) + 1]]

SampleSublens == {SublenPattern(run) : run \in SampleRuns}

\* a buffer no entry of which is a distance (1..32768): what a reader passes in
UnsetSublen == [i \in SublenIndices |-> 65535]

NoWrite == [written |-> FALSE, sublen |-> Zeros(ZOPFLI_MAX_MATCH + 1), length |-> 0]
NoCacheOp == [op |-> "none", pos |-> 0, length |-> 0, j |-> 0, bestlength |-> 0,
              assert_eq |-> TRUE, assert_le |-> TRUE, assert_max |-> TRUE, writes |-> 0]

AssertsHold(o) == o.assert_eq /\ o.assert_le /\ o.assert_max

\* the program has not ended: no assertion failed, no access faulted, the
\* allocator did not abort
Running(o) == AssertsHold(o) /\ o.op # "ended"

\* the call that ends the program
Ended(o) == [NoCacheOp EXCEPT !.op = "ended", !.writes = o.writes]

IdleCache ==
    /\ lmc = ZopfliLongestMatchCacheNew(0)
    /\ sublen = EmptyVec
    /\ lastWrite = EmptyVec
    /\ cacheOp = NoCacheOp

IdleStore == store = [litlens |-> EmptyVec, dists |-> EmptyVec, pos |-> EmptyVec,
                      ll_symbol |-> EmptyVec, d_symbol |-> EmptyVec,
                      ll_counts |-> EmptyVec, d_counts |-> EmptyVec]

IdlePure == pc = "off" /\ call = <<>> /\ ret = <<>>

InitCache ==
    /\ lmc = ZopfliLongestMatchCacheNew(BlockSize)
    /\ sublen = Zeros(ZOPFLI_MAX_MATCH + 1)
    /\ lastWrite = [p \in Positions |-> NoWrite]
    /\ cacheOp = NoCacheOp
    /\ IdleStore
    /\ IdlePure

\* a call that touches the arrays of a cleaned cache is not defined: the access
\* faults, an assertion on what was read back fails or the allocator aborts, and
\* the program ends; or the call goes through
EndsProgram(touchesFreed, ends) == touchesFreed /\ ends

\* a caller fills its buffer with v and calls ZopfliSublenToCache(v, pos, length, lmc);
\* a failed assertion ends the program.  With length < 3 the call returns before
\* it touches the arrays.
SublenToCache(pos, v, length, ends) ==
    /\ Running(cacheOp)
    /\ cacheOp.writes < MaxWrites
    /\ IF EndsProgram(lmc.freed /\ length >= 3, ends)
       THEN /\ cacheOp' = Ended([cacheOp EXCEPT !.writes = @ + 1])
            /\ UNCHANGED <<lmc, sublen, lastWrite>>
       ELSE LET r == ZopfliSublenToCache(v, pos, length, lmc)
            IN  /\ lmc' = r.lmc
                /\ sublen' = v
                /\ lastWrite' = IF r.stored
                                 THEN [lastWrite EXCEPT ![pos] =
                                         [written |-> TRUE, sublen |-> v, length |-> length]]
                                 ELSE lastWrite
                /\ cacheOp' = [op |-> "write", pos |-> pos, length |-> length,
                               j |-> r.j, bestlength |-> r.bestlength,
                               assert_eq |-> r.assert_eq, assert_le |-> r.assert_le,
                               assert_max |-> r.assert_max, writes |-> cacheOp.writes + 1]
    /\ UNCHANGED <<store, pc, call, ret>>

\* a caller calls ZopfliCacheToSublen(lmc, pos, length, sublen) on a buffer it has
\* not filled.  The call reads the arrays (ZopfliMaxCachedSublen) before it tests
\* length.
CacheToSublen(pos, length, ends) ==
    /\ Running(cacheOp)
    /\ IF EndsProgram(lmc.freed, ends)
       THEN /\ cacheOp' = Ended(cacheOp)
            /\ UNCHANGED sublen
       ELSE /\ sublen' = ZopfliCacheToSublen(lmc, pos, length, UnsetSublen)
            /\ cacheOp' = [NoCacheOp EXCEPT !.op = "read", !.pos = pos, !.length = length,
                                            !.writes = cacheOp.writes]
    /\ UNCHANGED <<lmc, lastWrite, store, pc, call, ret>>

\* a caller calls ZopfliCleanCache(lmc); a second call frees the arrays twice
CleanCache(ends) ==
    /\ Running(cacheOp)
    /\ IF EndsProgram(lmc.freed, ends)
       THEN /\ cacheOp' = Ended(cacheOp)
            /\ UNCHANGED lmc
       ELSE /\ lmc' = ZopfliCleanCache(lmc)
            /\ cacheOp' = [NoCacheOp EXCEPT !.op = "clean", !.writes = cacheOp.writes]
    /\ UNCHANGED <<sublen, lastWrite, store, pc, call, ret>>

\* the lengths a reader asks for: below ZOPFLI_MIN_MATCH, or the length it stored
ReadLengths(pos) == {2, IF lastWrite[pos].written THEN lastWrite[pos].length ELSE 3}

NextCache ==
    \/ \E pos \in Positions, v \in SampleSublens, length \in SampleLengths, ends \in BOOLEAN :
            SublenToCache(pos, v, length, ends)
    \/ \E pos \in Positions, ends \in BOOLEAN : \E length \in ReadLengths(pos) :
            CacheToSublen(pos, length, ends)
    \/ \E ends \in BOOLEAN : CleanCache(ends)

SpecCache == InitCache /\ [][NextCache]_vars

(***************************************************************************)
(* lz77.rs                                                                 *)
(***************************************************************************)
\* Lz77Store::new
Lz77StoreNew ==
    [litlens |-> EmptyVec, dists |-> EmptyVec, pos |-> EmptyVec,
     ll_symbol |-> EmptyVec, d_symbol |-> EmptyVec,
     ll_counts |-> EmptyVec, d_counts |-> EmptyVec]

\* a slip: a new chunk started from zero instead of the previous chunk's counts
SeedCountsFromZero(counts, origsize, n) ==
    IF origsize % n = 0
    THEN counts @@ [i \in VecLen(counts)..(VecLen(counts) + n - 1) |-> 0]
    ELSE counts

\* a slip: a new chunk one entry short
SeedCountsShort(counts, origsize, n) ==
    IF origsize % n = 0
    THEN counts @@ [i \in VecLen(counts)..(VecLen(counts) + n - 2) |->
                      IF origsize = 0 THEN 0 ELSE counts[i - n + 1]]
    ELSE counts

\* lit_len_dist, the two seeding loops: when origsize is a multiple of the chunk
\* size n, push n entries, the i-th being counts[origsize - n + i] (0 in an
\* empty store).  The entry read is always one pushed by an earlier call.
SeedCounts(counts, origsize, n) ==
    IF origsize % n = 0
    THEN counts @@ [i \in VecLen(counts)..(VecLen(counts) + n - 1) |->
                      IF origsize = 0 THEN 0 ELSE counts[origsize - n + (i - VecLen(counts))]]
    ELSE counts

\* counts[index] += 1
Increment(counts, index) == [counts EXCEPT ![index] = @ + 1]

\* Lz77Store::lit_len_dist(length, dist, pos): the store after the call
lit_len_dist(s, length, dist, p) ==
    LET origsize == VecLen(s.litlens)
        llstart  == ZOPFLI_NUM_LL * (origsize \div ZOPFLI_NUM_LL)
        dstart   == ZOPFLI_NUM_D * (origsize \div ZOPFLI_NUM_D)
        ll1      == SeedCounts(s.ll_counts, origsize, ZOPFLI_NUM_LL)
        d1       == SeedCounts(s.d_counts, origsize, ZOPFLI_NUM_D)
    IN  IF dist = 0
        THEN [litlens   |-> Push(s.litlens, length),
              dists     |-> Push(s.dists, dist),
              pos       |-> Push(s.pos, p),
              ll_symbol |-> Push(s.ll_symbol, length),
              d_symbol  |-> Push(s.d_symbol, 0),
              ll_counts |-> Increment(ll1, llstart + length),
              d_counts  |-> d1]
        ELSE [litlens   |-> Push(s.litlens, length),
              dists     |-> Push(s.dists, dist),
              pos       |-> Push(s.pos, p),
              ll_symbol |-> Push(s.ll_symbol, ZopfliGetLengthSymbol(length)),
              d_symbol  |-> Push(s.d_symbol, ZopfliGetDistSymbol(dist)),
              ll_counts |-> Increment(ll1, llstart + ZopfliGetLengthSymbol(length)),
              d_counts  |-> Increment(d1, dstart + ZopfliGetDistSymbol(dist))]

(***************************************************************************)
(* The store's callers.  A store starts as the store that StartSize calls  *)
(* of lit_len_dist on a fixed token stream leave (0 calls: Lz77Store::new),*)
(* so that the chunk boundaries at 32, 288 and 576 tokens are within reach;*)
(* then up to MaxAppends tokens of any kind are appended.                  *)
(***************************************************************************)
MaxAppends == 3

\* literals and matches, the smallest and largest of each
SampleTokens == { <<0, 0>>, <<255, 0>>, <<3, 1>>, <<ZOPFLI_MAX_MATCH, 32768>> }
\* the fixed stream: token i is StreamTokens[(i % 7) + 1]
StreamTokens == << <<97, 0>>, <<3, 1>>, <<98, 0>>, <<20, 700>>, <<ZOPFLI_MAX_MATCH, 32768>>,
                   <<11, 5>>, <<130, 4097>> >>
StartSizes == {0, 31, 287, 575}

\* the position in the data of the token appended next: each token covers one
\* byte (a literal) or length bytes (a match)
NextPos(s) ==
    LET n == VecLen(s.litlens)
    IN  IF n = 0 THEN 0
        ELSE s.pos[n - 1] + (IF s.dists[n - 1] = 0 THEN 1 ELSE s.litlens[n - 1])

RECURSIVE AppendStream(_, _, _)
\* the store after lit_len_dist is called for tokens lo .. hi-1 of the stream
AppendStream(s, lo, hi) ==
    IF hi <= lo THEN s
    ELSE IF hi = lo + 1
         THEN LET t == StreamTokens[(lo % Len(StreamTokens)) + 1]
              IN  lit_len_dist(s, t[1], t[2], NextPos(s))
         ELSE LET mid  == (lo + hi) \div 2
                  left == AppendStream(s, lo, mid)
              IN  \* the test only makes the first half be computed before the second
                  IF VecLen(left.litlens) >= 0 THEN AppendStream(left, mid, hi) ELSE left

StartStores == {AppendStream(Lz77StoreNew, 0, n) : n \in StartSizes}

StoreSize(s) == VecLen(s.litlens)

InitStore ==
    /\ store \in StartStores
    /\ pc = "store"
    /\ call = [appends |-> 0]
    /\ ret = <<>>
    /\ IdleCache

\* the positions of a caller whose pointer is to a store that was freed: "freed",
\* and "freed_exported" when it also holds an exported struct
FreedPcs == {"freed", "freed_exported"}

\* lz77_store_free(ptr): nothing for a null pointer; otherwise the Box is dropped
\* with its seven Vecs, and the store holds no entry any more
lz77_store_free(isNull, s) == IF isNull THEN s ELSE Lz77StoreNew

\* a call through the pointer to a freed store is not defined: the access faults
\* and the program ends ("ended"), or the call goes through on whatever the
\* memory holds, and nothing is known of the program from there on ("undefined")
UseAfterFree(faults) ==
    /\ pc \in FreedPcs
    /\ pc' = IF faults THEN "ended" ELSE "undefined"
    /\ UNCHANGED <<lmc, sublen, lastWrite, cacheOp, store, call, ret>>

\* lz77_store_lit_len_dist(ptr, length, dist, pos): store.lit_len_dist(length, dist, pos)
LitLenDist(length, dist, faults) ==
    \/ /\ pc = "store"
       /\ call.appends < MaxAppends
       /\ store' = lit_len_dist(store, length, dist, NextPos(store))
       /\ call' = [appends |-> call.appends + 1]
       /\ UNCHANGED <<lmc, sublen, lastWrite, cacheOp, pc, ret>>
    \/ UseAfterFree(faults)

\* lz77_store_free(ptr), on a null pointer or on the pointer to the store; a
\* second call on the same pointer drops a Box that is gone
StoreFree(isNull, faults) ==
    \/ /\ pc \in {"store", "exported", "imported", "imported_zeroed"}
       /\ pc \in {"imported", "imported_zeroed"} => ret.outcome = "returned"
       /\ store' = lz77_store_free(isNull, store)
       /\ pc' = IF isNull THEN pc
                 ELSE IF pc \in {"exported", "imported"} THEN "freed_exported" ELSE "freed"
       /\ UNCHANGED <<lmc, sublen, lastWrite, cacheOp, call, ret>>
    \/ /\ isNull
       /\ pc \in FreedPcs
       /\ UNCHANGED vars
    \/ /\ ~isNull
       /\ UseAfterFree(faults)

NextStore ==
    \/ \E t \in SampleTokens, faults \in BOOLEAN : LitLenDist(t[1], t[2], faults)
    \/ \E isNull \in BOOLEAN, faults \in BOOLEAN : StoreFree(isNull, faults)

SpecStore == InitStore /\ [][NextStore]_vars

(***************************************************************************)
(* lz77.rs: export to a ZopfliLZ77Store and import from one.  A pointer is *)
(* null or points to the buffer of a Vec.  A read past the end of a buffer *)
(* is not defined.  Behind the buffer of a Vec that holds entries lies     *)
(* other memory of the process: the read faults, or it goes through and    *)
(* finds there whatever that memory holds.  The pointer of a Vec that was  *)
(* never pushed to points to no memory at all: the read faults.            *)
(***************************************************************************)

NullPtr == [null |-> TRUE, buf |-> EmptyVec]

\* Vec::as_mut_ptr: never null; dangling when the Vec holds nothing
as_mut_ptr(v) == [null |-> FALSE, buf |-> v]

\* lz77_store_result: the fields it sets
lz77_store_result(s) ==
    [litlens   |-> as_mut_ptr(s.litlens),
     dists     |-> as_mut_ptr(s.dists),
     size      |-> VecLen(s.litlens),
     pos       |-> as_mut_ptr(s.pos),
     ll_symbol |-> as_mut_ptr(s.ll_symbol),
     d_symbol  |-> as_mut_ptr(s.d_symbol),
     ll_counts |-> as_mut_ptr(s.ll_counts),
     d_counts  |-> as_mut_ptr(s.d_counts)]

\* ptr_to_vec(ptr, length): nothing for a null pointer, else the length entries
\* at ptr
ptr_to_vec(ptr, length) ==
    IF ptr.null THEN EmptyVec
    ELSE [i \in 0..(length - 1) |-> IF i < VecLen(ptr.buf) THEN ptr.buf[i] ELSE Unspecified]

\* ptr_to_vec(ptr, length) reads past the end of the buffer at ptr
ReadsPastEnd(ptr, length) == ~ptr.null /\ length > VecLen(ptr.buf)

\* ... and there is no buffer at ptr
ReadsNoMemory(ptr, length) == ReadsPastEnd(ptr, length) /\ VecLen(ptr.buf) = 0

\* ll_len and d_len of the import
ImportCountsLen(size, n) == n * (size \div n) + n

\* From<*const ZopfliLZ77Store>: the store made, the numbers of entries read
\* from ll_counts and d_counts, and whether a read faulted; faults says whether
\* a read behind a buffer that holds entries does
Lz77StoreFrom(c, faults) ==
    LET len    == c.size
        ll_len == ImportCountsLen(c.size, ZOPFLI_NUM_LL)
        d_len  == ImportCountsLen(c.size, ZOPFLI_NUM_D)
        reads  == {<<c.litlens, len>>, <<c.dists, len>>, <<c.pos, len>>,
                   <<c.ll_symbol, len>>, <<c.d_symbol, len>>,
                   <<c.ll_counts, ll_len>>, <<c.d_counts, d_len>>}
    IN  IF \/ \E r \in reads : ReadsNoMemory(r[1], r[2])
           \/ faults /\ \E r \in reads : ReadsPastEnd(r[1], r[2])
        THEN [outcome |-> "fault", ll_read |-> ll_len, d_read |-> d_len, store |-> Lz77StoreNew]
        ELSE [outcome |-> "returned", ll_read |-> ll_len, d_read |-> d_len,
              store |-> [litlens   |-> ptr_to_vec(c.litlens, len),
                         dists     |-> ptr_to_vec(c.dists, len),
                         pos       |-> ptr_to_vec(c.pos, len),
                         ll_symbol |-> ptr_to_vec(c.ll_symbol, len),
                         d_symbol  |-> ptr_to_vec(c.d_symbol, len),
                         ll_counts |-> ptr_to_vec(c.ll_counts, ll_len),
                         d_counts  |-> ptr_to_vec(c.d_counts, d_len)]]

\* lz77_store_from_c: the import, boxed
lz77_store_from_c(c, faults) == Lz77StoreFrom(c, faults)

(***************************************************************************)
(* Export and import: a store of ExportSizes tokens of the fixed stream    *)
(* gets up to MaxAppends more tokens, is exported, and the exported struct *)
(* is imported.                                                            *)
(***************************************************************************)
ExportSizes == {0, ZOPFLI_NUM_D - 1, ZOPFLI_NUM_D, ZOPFLI_NUM_LL}

InitExport ==
    /\ store \in {AppendStream(Lz77StoreNew, 0, n) : n \in ExportSizes}
    /\ pc = "store"
    /\ call = [appends |-> 0]
    /\ ret = <<>>
    /\ IdleCache

\* lz77_store_result(ptr, &mut c)
StoreResult(faults) ==
    \/ /\ pc = "store"
       /\ ret' = lz77_store_result(store)
       /\ pc' = "exported"
       /\ UNCHANGED <<lmc, sublen, lastWrite, cacheOp, store, call>>
    \/ UseAfterFree(faults)

\* lz77_store_from_c(&c); the arrays c points to are the store's: after
\* lz77_store_free they are freed
StoreFromC(faults) ==
    \/ /\ pc = "exported"
       /\ ret' = lz77_store_from_c(ret, faults)
       /\ pc' = "imported"
       /\ UNCHANGED <<lmc, sublen, lastWrite, cacheOp, store, call>>
    \/ /\ pc = "freed_exported"
       /\ UseAfterFree(faults)

\* a ZopfliLZ77Store whose arrays were never allocated: every pointer null
ZeroedStore ==
    [litlens |-> NullPtr, dists |-> NullPtr, size |-> 0, pos |-> NullPtr,
     ll_symbol |-> NullPtr, d_symbol |-> NullPtr, ll_counts |-> NullPtr, d_counts |-> NullPtr]

\* lz77_store_from_c on a struct of null pointers: ptr_to_vec reads nothing
StoreFromZeroed(faults) ==
    /\ pc = "store"
    /\ ret' = lz77_store_from_c(ZeroedStore, faults)
    /\ pc' = "imported_zeroed"
    /\ UNCHANGED <<lmc, sublen, lastWrite, cacheOp, store, call>>

NextExport ==
    \/ \E t \in SampleTokens, faults \in BOOLEAN : LitLenDist(t[1], t[2], faults)
    \/ \E faults \in BOOLEAN : StoreResult(faults)
    \/ \E faults \in BOOLEAN : StoreFromC(faults)
    \/ \E faults \in BOOLEAN : StoreFromZeroed(faults)
    \/ \E isNull \in BOOLEAN, faults \in BOOLEAN : StoreFree(isNull, faults)

SpecExport == InitExport /\ [][NextExport]_vars

(***************************************************************************)
(* katajainen.rs                                                           *)
(***************************************************************************)
\* the leaves pushed for the non-zero frequencies, as the set of their sort keys
\* (weight << 9) | index; an index below 512 occupies the low 9 bits alone
PackedLeaves(frequencies) ==
    {frequencies[i] * 512 + i : i \in {k \in DOMAIN frequencies : frequencies[k] # 0}}

RECURSIVE SortKeys(_)
\* leaves.sort() on the packed weights: the keys in ascending order, 0-based
SortKeys(keys) ==
    IF keys = {} THEN EmptyVec
    ELSE LET least == CHOOSE k \in keys : \A o \in keys : k <= o
             rest  == SortKeys(keys \ {least})
         IN  [i \in 0..Cardinality(keys) - 1 |-> IF i = 0 THEN least ELSE rest[i - 1]]

\* the sorted leaves after weight >>= 9: the index field is the one pushed
SortedLeaves(frequencies) ==
    LET keys == SortKeys(PackedLeaves(frequencies))
    IN  [i \in DOMAIN keys |-> [weight |-> keys[i] \div 512, index |-> keys[i] % 512]]

\* one List as the loop over 0..maxbits pushes it
InitialList(leaves) ==
    [lookahead1  |-> [weight |-> leaves[0].weight, leaf_count |-> 1],
     lookahead2  |-> [weight |-> leaves[1].weight, leaf_count |-> 2],
     last_active |-> [weight |-> leaves[1].weight, leaf_count |-> 2],
     next_leaf_index |-> 2]

\* length_limited_code_lengths(frequencies, maxbits): the call panics on
\* leaves[0] or leaves[1] when a list is built from fewer than two leaves, and
\* otherwise returns vec![0; n]
length_limited_code_lengths(frequencies, maxbits) ==
    LET leaves == SortedLeaves(frequencies)
        n      == VecLen(frequencies)
    IN  IF maxbits > 0 /\ VecLen(leaves) < 2
        THEN [outcome |-> "panicked", lengths |-> EmptyVec, lists |-> EmptyVec]
        ELSE [outcome |-> "returned", lengths |-> Zeros(n),
              lists |-> [k \in 0..(maxbits - 1) |-> InitialList(leaves)]]

(***************************************************************************)
(* Callers of length_limited_code_lengths: frequency arrays of up to       *)
(* MaxSymbols entries, each at most MaxFreq, and the array of the paper.   *)
(***************************************************************************)
MaxSymbols == 3
MaxFreq == 2
MaxBits == 4

PaperFrequencies == [i \in 0..5 |-> <<1, 1, 5, 7, 10, 14>>[i + 1]]

FrequencyArrays ==
    UNION {[0..(n - 1) -> 0..MaxFreq] : n \in 0..MaxSymbols} \cup {PaperFrequencies}

NoReturn == [outcome |-> "pending", lengths |-> EmptyVec, lists |-> EmptyVec]

InitKatajainen ==
    /\ pc = "call"
    /\ call \in [fn : {"length_limited_code_lengths"},
                  frequencies : FrequencyArrays, maxbits : 0..MaxBits]
    /\ ret = NoReturn
    /\ IdleCache
    /\ IdleStore

LengthLimitedCodeLengths ==
    /\ pc = "call"
    /\ call.fn = "length_limited_code_lengths"
    /\ ret' = length_limited_code_lengths(call.frequencies, call.maxbits)
    /\ pc' = "done"
    /\ UNCHANGED <<lmc, sublen, lastWrite, cacheOp, store, call>>

NextKatajainen == LengthLimitedCodeLengths

SpecKatajainen == InitKatajainen /\ [][NextKatajainen]_vars

(***************************************************************************)
(* katajainen.rs: ExtractBitLengths.  A chain is a Node of a pool; tail is *)
(* the index of the next Node of the chain or Null.                        *)
(***************************************************************************)
Null == -1
ChainCountsLen == 16

RECURSIVE ReadChain(_, _, _, _)
\* the first while loop, from node_ptr on: counts filled from its end, one entry
\* per Node; `end -= 1` at 0 does not go through (overflow panic, or index out of
\* range in a build without overflow checks)
ReadChain(pool, node_ptr, end, counts) ==
    IF node_ptr = Null THEN [outcome |-> "returned", end |-> end, counts |-> counts]
    ELSE IF end = 0 THEN [outcome |-> "panicked", end |-> end, counts |-> counts]
    ELSE ReadChain(pool, pool[node_ptr].tail, end - 1,
                   [counts EXCEPT ![end - 1] = pool[node_ptr].count])

\* a slip: the leaf of rank val taken at index val instead of val - 1
WriteRanksFromOne(bitlengths, leaves, lo, val, value) ==
    [s \in DOMAIN bitlengths |->
        IF \E r \in (lo + 1)..val : r \in DOMAIN leaves /\ leaves[r].count = s
        THEN value ELSE bitlengths[s]]

\* the inner while loop: bitlengths[leaves[val - 1].count] = value for val from
\* its value down to lo + 1
WriteRanks(bitlengths, leaves, lo, val, value) ==
    [s \in DOMAIN bitlengths |->
        IF \E r \in (lo + 1)..val : leaves[r - 1].count = s
        THEN value ELSE bitlengths[s]]

RECURSIVE EmitLengths(_, _, _, _, _, _, _)
\* the outer while loop, from ptr on; counts[ptr - 1] at ptr = 0 does not go
\* through
EmitLengths(counts, leaves, end, ptr, val, value, bitlengths) ==
    IF ptr < end THEN [outcome |-> "returned", bitlengths |-> bitlengths]
    ELSE IF ptr = 0 THEN [outcome |-> "panicked", bitlengths |-> bitlengths]
    ELSE EmitLengths(counts, leaves, end, ptr - 1, Min(val, counts[ptr - 1]), value + 1,
                     WriteRanks(bitlengths, leaves, counts[ptr - 1], val, value))

\* ExtractBitLengths(chain, leaves, bitlengths): how the call ends and bitlengths
\* then
ExtractBitLengths(pool, chain, leaves, bitlengths) ==
    LET r == ReadChain(pool, chain, ChainCountsLen, Zeros(ChainCountsLen))
    IN  IF r.outcome = "panicked"
        THEN [outcome |-> "panicked", bitlengths |-> bitlengths]
        ELSE EmitLengths(r.counts, leaves, r.end, ChainCountsLen - 1,
                         r.counts[ChainCountsLen - 1], 1, bitlengths)

(***************************************************************************)
(* Callers of ExtractBitLengths: up to MaxLeaves leaves in ascending weight *)
(* over MaxLeaves + 1 symbols, chains of non-increasing counts that are at  *)
(* most the number of leaves, short ones and ones about as long as counts.  *)
(***************************************************************************)
MaxLeaves == 3
ChainLengths == {0, 1, 2, 3, ChainCountsLen - 2, ChainCountsLen - 1, ChainCountsLen,
                 ChainCountsLen + 1}

\* the symbol of the leaf at index i: in order, in reverse, or shifted by one
LeafSymbols(m) ==
    {[i \in 0..(m - 1) |-> i], [i \in 0..(m - 1) |-> m - 1 - i], [i \in 0..(m - 1) |-> i + 1]}

\* the arrays of up to max leaves
LeafArrays(max) ==
    UNION {{[i \in 0..(m - 1) |-> [weight |-> i + 1, count |-> f[i]]] : f \in LeafSymbols(m)}
             : m \in 1..max}

\* the chains of k Nodes for m leaves, as their counts from the head on
RECURSIVE ChainCounts(_, _)
ChainCounts(k, m) ==
    IF k = 0 THEN {<<>>}
    ELSE LET tails == ChainCounts(k - 1, m)
         IN  UNION {{<<c>> \o t : t \in {u \in tails : u = <<>> \/ u[1] <= c}} : c \in 1..m}

\* Node j of the chain at pool[j], its tail at pool[j + 1]
ChainPool(cs) ==
    [j \in 0..(Len(cs) - 1) |->
        [weight |-> 0, count |-> cs[j + 1], tail |-> IF j + 1 < Len(cs) THEN j + 1 ELSE Null]]

\* the calls with up to max leaves: bitlengths has one entry more than that
ExtractInputs(max) ==
    UNION {{[fn |-> "ExtractBitLengths", pool |-> ChainPool(cs),
             chain |-> IF cs = <<>> THEN Null ELSE 0,
             leaves |-> l, bitlengths |-> [s \in 0..max |-> b]]
              : cs \in UNION {ChainCounts(k, VecLen(l)) : k \in ChainLengths}, b \in {0, 16}}
             : l \in LeafArrays(max)}

InitExtract ==
    /\ pc = "call"
    /\ call \in ExtractInputs(MaxLeaves)
    /\ ret = <<>>
    /\ IdleCache
    /\ IdleStore

ExtractLengths ==
    /\ pc = "call"
    /\ call.fn = "ExtractBitLengths"
    /\ ret' = ExtractBitLengths(call.pool, call.chain, call.leaves, call.bitlengths)
    /\ pc' = "done"
    /\ UNCHANGED <<lmc, sublen, lastWrite, cacheOp, store, call>>

NextExtract == ExtractLengths

SpecExtract == InitExtract /\ [][NextExtract]_vars

(***************************************************************************)
(* deflate.rs: the fixed tree and the distance-code patch                  *)
(***************************************************************************)
\* GetFixedTree: the two arrays it fills
GetFixedTree ==
    [ll_lengths |-> [i \in 0..(ZOPFLI_NUM_LL - 1) |->
                        IF i < 144 THEN 8
                        ELSE IF i < 256 THEN 9
                        ELSE IF i < 280 THEN 7
                        ELSE 8],
     d_lengths  |-> [i \in 0..(ZOPFLI_NUM_D - 1) |-> 5]]

\* a slip: the two unused codes 30 and 31 counted too
PatchDistanceCodesCountingAll(d_lengths) ==
    LET num_dist_codes == Cardinality({i \in 0..31 : d_lengths[i] # 0})
    IN  IF num_dist_codes >= 2 THEN d_lengths
        ELSE IF num_dist_codes = 0 THEN [d_lengths EXCEPT ![0] = 1, ![1] = 1]
        ELSE [d_lengths EXCEPT ![IF d_lengths[0] = 0 THEN 0 ELSE 1] = 1]

\* PatchDistanceCodesForBuggyDecoders: d_lengths after the call.  The scan of
\* the first 30 entries returns as soon as it has counted two non-zero ones.
PatchDistanceCodesForBuggyDecoders(d_lengths) ==
    LET num_dist_codes == Cardinality({i \in 0..29 : d_lengths[i] # 0})
    IN  IF num_dist_codes >= 2 THEN d_lengths
        ELSE IF num_dist_codes = 0 THEN [d_lengths EXCEPT ![0] = 1, ![1] = 1]
        ELSE [d_lengths EXCEPT ![IF d_lengths[0] = 0 THEN 0 ELSE 1] = 1]

\* arrays of 32 lengths that are zero outside the entries PatchIndices
PatchIndices == {0, 1, 2, 29, 30, 31}
PatchLengths == {0, 1, 15}
PatchInputs ==
    {[i \in 0..(ZOPFLI_NUM_D - 1) |-> IF i \in PatchIndices THEN f[i] ELSE 0] :
        f \in [PatchIndices -> PatchLengths]}

InitPatch ==
    /\ pc = "call"
    /\ call \in [fn : {"PatchDistanceCodesForBuggyDecoders"}, d_lengths : PatchInputs]
    /\ ret = EmptyVec
    /\ IdleCache
    /\ IdleStore

PatchDistanceCodes ==
    /\ pc = "call"
    /\ call.fn = "PatchDistanceCodesForBuggyDecoders"
    /\ ret' = PatchDistanceCodesForBuggyDecoders(call.d_lengths)
    /\ pc' = "done"
    /\ UNCHANGED <<lmc, sublen, lastWrite, cacheOp, store, call>>

NextPatch == PatchDistanceCodes

SpecPatch == InitPatch /\ [][NextPatch]_vars

(***************************************************************************)
(* deflate.rs: the size of a block's symbols.  The sums are c_uint; on the  *)
(* stores modelled here (under 1000 tokens of at most 48 bits each) they   *)
(* stay far below 2^32, so no sum wraps.                                   *)
(***************************************************************************)
\* the loop of CalculateBlockSymbolSizeSmall and the end symbol: token by token
\* over lstart .. lend-1 of the imported store rs
BlockSymbolSizeFromTokens(ll_lengths, d_lengths, rs, lstart, lend) ==
    LET bits == [i \in lstart..(lend - 1) |->
                   IF rs.dists[i] = 0
                   THEN ll_lengths[rs.litlens[i]]
                   ELSE LET ll_symbol == ZopfliGetLengthSymbol(rs.litlens[i])
                            d_symbol  == ZopfliGetDistSymbol(rs.dists[i])
                        IN  ll_lengths[ll_symbol] + d_lengths[d_symbol]
                            + ZopfliGetLengthSymbolExtraBits(ll_symbol)
                            + ZopfliGetDistSymbolExtraBits(d_symbol)]
    IN  SumRange(bits, lstart, lend) + ll_lengths[256]

\* CalculateBlockSymbolSizeSmall(ll_lengths, d_lengths, lz77_ptr, lstart, lend):
\* the store at lz77_ptr is imported first (the Box made is never freed); the
\* loop asserts i < rs.size() and litlens_i < 259.  faults: see Lz77StoreFrom.
CalculateBlockSymbolSizeSmall(ll_lengths, d_lengths, lz77_ptr, lstart, lend, faults) ==
    LET imp == lz77_store_from_c(lz77_ptr, faults)
        rs  == imp.store
    IN  IF imp.outcome = "fault" THEN [outcome |-> "fault", size |-> 0]
        ELSE IF \E i \in lstart..(lend - 1) : i >= VecLen(rs.litlens) \/ rs.litlens[i] >= 259
        THEN [outcome |-> "panicked", size |-> 0]
        ELSE [outcome |-> "returned",
              size |-> BlockSymbolSizeFromTokens(ll_lengths, d_lengths, rs, lstart, lend)]

\* the else branch of CalculateBlockSymbolSizeGivenCounts: from the histogram
BlockSymbolSizeFromCounts(ll_counts, d_counts, ll_lengths, d_lengths) ==
    LET lit  == [i \in 0..255 |-> ll_lengths[i] * ll_counts[i]]
        len  == [i \in 257..285 |-> ll_lengths[i] * ll_counts[i]
                                     + ZopfliGetLengthSymbolExtraBits(i) * ll_counts[i]]
        dist == [i \in 0..29 |-> d_lengths[i] * d_counts[i]
                                  + ZopfliGetDistSymbolExtraBits(i) * d_counts[i]]
    IN  SumRange(lit, 0, 256) + SumRange(len, 257, 286) + SumRange(dist, 0, 30)
        + ll_lengths[256]

CalculateBlockSymbolSizeGivenCounts(ll_counts, d_counts, ll_lengths, d_lengths, lz77, lstart, lend, faults) ==
    IF lstart + ZOPFLI_NUM_LL * 3 > lend
    THEN CalculateBlockSymbolSizeSmall(ll_lengths, d_lengths, lz77, lstart, lend, faults)
    ELSE [outcome |-> "returned",
          size |-> BlockSymbolSizeFromCounts(ll_counts, d_counts, ll_lengths, d_lengths)]

\* &*lz77: the arrays the struct points to, which get_histogram reads in place
PointedStore(lz77) ==
    [litlens   |-> lz77.litlens.buf,
     dists     |-> lz77.dists.buf,
     pos       |-> lz77.pos.buf,
     ll_symbol |-> lz77.ll_symbol.buf,
     d_symbol  |-> lz77.d_symbol.buf,
     ll_counts |-> lz77.ll_counts.buf,
     d_counts  |-> lz77.d_counts.buf]

\* lz77::get_histogram at one position: the cumulative counts of the chunk of
\* lpos, less the tokens of the chunk that come after lpos
HistogramAt(s, lpos) ==
    LET size  == VecLen(s.litlens)
        llpos == ZOPFLI_NUM_LL * (lpos \div ZOPFLI_NUM_LL)
        dpos  == ZOPFLI_NUM_D * (lpos \div ZOPFLI_NUM_D)
        llend == IF llpos + ZOPFLI_NUM_LL < size THEN llpos + ZOPFLI_NUM_LL ELSE size
        dend  == IF dpos + ZOPFLI_NUM_D < size THEN dpos + ZOPFLI_NUM_D ELSE size
        llaft == {s.ll_symbol[k] : k \in (lpos + 1)..(llend - 1)}
    IN  [ll |-> [i \in 0..(ZOPFLI_NUM_LL - 1) |->
                   s.ll_counts[llpos + i]
                   - (IF i \in llaft
                      THEN Cardinality({k \in (lpos + 1)..(llend - 1) : s.ll_symbol[k] = i})
                      ELSE 0)],
         d  |-> [i \in 0..(ZOPFLI_NUM_D - 1) |->
                   s.d_counts[dpos + i]
                   - Cardinality({k \in (lpos + 1)..(dend - 1) :
                                    s.dists[k] # 0 /\ s.d_symbol[k] = i})]]

\* lz77::get_histogram(store, lstart, lend): the counts of the tokens lstart ..
\* lend-1, by a loop over a short range and from the cumulative counts otherwise
get_histogram(s, lstart, lend) ==
    IF lstart + ZOPFLI_NUM_LL * 3 > lend
    THEN [ll |-> [i \in 0..(ZOPFLI_NUM_LL - 1) |->
                    Cardinality({k \in lstart..(lend - 1) : s.ll_symbol[k] = i})],
          d  |-> [i \in 0..(ZOPFLI_NUM_D - 1) |->
                    Cardinality({k \in lstart..(lend - 1) :
                                   s.dists[k] # 0 /\ s.d_symbol[k] = i})]]
    ELSE LET upto   == HistogramAt(s, lend - 1)
             before == HistogramAt(s, lstart - 1)
         IN  IF lstart > 0
             THEN [ll |-> [i \in 0..(ZOPFLI_NUM_LL - 1) |-> upto.ll[i] - before.ll[i]],
                   d  |-> [i \in 0..(ZOPFLI_NUM_D - 1) |-> upto.d[i] - before.d[i]]]
             ELSE upto

CalculateBlockSymbolSize(ll_lengths, d_lengths, lz77, lstart, lend, faults) ==
    IF lstart + ZOPFLI_NUM_LL * 3 > lend
    THEN CalculateBlockSymbolSizeSmall(ll_lengths, d_lengths, lz77, lstart, lend, faults)
    ELSE LET h == get_histogram(PointedStore(lz77), lstart, lend)
         IN  CalculateBlockSymbolSizeGivenCounts(h.ll, h.d, ll_lengths, d_lengths,
                                                 lz77, lstart, lend, faults)

(***************************************************************************)
(* Callers of CalculateBlockSymbolSize: stores of the fixed token stream,  *)
(* empty, short and longer than three chunks, of a size that is a multiple *)
(* of the chunk sizes or not, exported with lz77_store_result; ranges that *)
(* leave out up to MaxTrim tokens at either end; three pairs of            *)
(* code-length tables.                                                     *)
(***************************************************************************)
MaxTrim == 2

BlockStoreSizes == {0, 3, ZOPFLI_NUM_D, ZOPFLI_NUM_LL + 1, ZOPFLI_NUM_LL * 3,
                    ZOPFLI_NUM_LL * 3 + 1, ZOPFLI_NUM_LL * 3 + 7}
BlockStores == {AppendStream(Lz77StoreNew, 0, n) : n \in BlockStoreSizes}

\* the fixed tree; lengths that differ from symbol to symbol; lengths 0 and 15
CodeLengthTables ==
    { GetFixedTree,
      [ll_lengths |-> [i \in 0..(ZOPFLI_NUM_LL - 1) |-> 1 + (i % 15)],
       d_lengths  |-> [i \in 0..(ZOPFLI_NUM_D - 1) |-> 1 + (i % 7)]],
      [ll_lengths |-> [i \in 0..(ZOPFLI_NUM_LL - 1) |-> IF i % 2 = 0 THEN 15 ELSE 0],
       d_lengths  |-> [i \in 0..(ZOPFLI_NUM_D - 1) |-> IF i % 2 = 0 THEN 0 ELSE 15]] }

InitBlockSize ==
    /\ pc = "call"
    /\ store \in BlockStores
    /\ \E t \in CodeLengthTables, a \in 0..MaxTrim, b \in 0..MaxTrim :
          /\ a <= StoreSize(store) - b
          /\ call = [fn |-> "CalculateBlockSymbolSize",
                     ll_lengths |-> t.ll_lengths, d_lengths |-> t.d_lengths,
                     lstart |-> a, lend |-> StoreSize(store) - b]
    /\ ret = <<>>
    /\ IdleCache

\* the store is exported and both entry points are called on the exported struct
\* and the same arguments; each call makes its own import
BlockSymbolSize(smallFaults, sizeFaults) ==
    /\ pc = "call"
    /\ call.fn = "CalculateBlockSymbolSize"
    /\ LET lz77 == lz77_store_result(store)
       IN  ret' = [small |-> CalculateBlockSymbolSizeSmall(call.ll_lengths, call.d_lengths, lz77,
                                                           call.lstart, call.lend, smallFaults),
                   size  |-> CalculateBlockSymbolSize(call.ll_lengths, call.d_lengths, lz77,
                                                      call.lstart, call.lend, sizeFaults)]
    /\ pc' = "done"
    /\ UNCHANGED <<lmc, sublen, lastWrite, cacheOp, store, call>>

NextBlockSize == \E smallFaults \in BOOLEAN, sizeFaults \in BOOLEAN :
                    BlockSymbolSize(smallFaults, sizeFaults)

SpecBlockSize == InitBlockSize /\ [][NextBlockSize]_vars

(***************************************************************************)
(* deflate.rs: OptimizeHuffmanForRle.  The function reads the counts through *)
(* a slice made from the pointer it writes through.  Every read is at an   *)
(* index >= i and every write so far at an index < i, so a read never sees *)
(* a written entry, whether the build reads memory again or keeps a value. *)
(* The counts modelled are small: the casts to i32 lose nothing.           *)
(***************************************************************************)
Abs(x) == IF x < 0 THEN -x ELSE x

\* a slip: the trailing zeros not trimmed
TrimTrailingZerosNot(c, length) == length

RECURSIVE TrimTrailingZeros(_, _)
\* step 1: the length without the trailing zeros (0: the function returns)
TrimTrailingZeros(c, length) ==
    IF length = 0 THEN 0
    ELSE IF c[length - 1] # 0 THEN length
    ELSE TrimTrailingZeros(c, length - 1)

RECURSIVE MarkGoodForRle(_, _, _, _, _, _)
\* step 2, the for loop from index i on: good_for_rle when it ends
MarkGoodForRle(c, length, i, symbol, stride, good) ==
    IF i > length THEN good
    ELSE IF i = length \/ c[i] # symbol
    THEN LET marked == IF (symbol = 0 /\ stride >= 5) \/ (symbol # 0 /\ stride >= 7)
                       THEN [k \in DOMAIN good |->
                               IF i - stride <= k /\ k <= i - 1 THEN 1 ELSE good[k]]
                       ELSE good
         IN  MarkGoodForRle(c, length, i + 1, IF i # length THEN c[i] ELSE symbol, 1, marked)
    ELSE MarkGoodForRle(c, length, i + 1, symbol, stride + 1, good)

\* the count a collapsed stride gets
StrideCount(sum, stride) ==
    LET count == (sum + stride \div 2) \div stride
    IN  IF sum = 0 THEN 0 ELSE IF count < 1 THEN 1 ELSE count

\* counts[i - k - 1] = count for k in 0..stride-1
CollapseStride(counts, i, stride, count) ==
    [k \in DOMAIN counts |-> IF i - stride <= k /\ k <= i - 1 THEN count ELSE counts[k]]

\* the limit of the stride that starts at i
StrideLimit(c, length, i) ==
    IF length > 2 /\ i < length - 3
    THEN (c[i] + c[i + 1] + c[i + 2] + c[i + 3] + 2) \div 4
    ELSE IF i < length THEN c[i]
    ELSE 0

RECURSIVE CollapseStrides(_, _, _, _, _, _, _)
\* step 3, the for loop from index i on: the counts when it ends
CollapseStrides(counts, length, good, i, stride, limit, sum) ==
    IF i > length THEN counts
    ELSE IF i = length \/ good[i] # 0 \/ Abs(counts[i] - limit) >= 4
    THEN LET c2 == IF stride >= 4 \/ (stride >= 3 /\ sum = 0)
                   THEN CollapseStride(counts, i, stride, StrideCount(sum, stride))
                   ELSE counts
         IN  CollapseStrides(c2, length, good, i + 1, 1, StrideLimit(c2, length, i),
                             IF i # length THEN c2[i] ELSE 0)
    ELSE CollapseStrides(counts, length, good, i + 1, stride + 1, limit, sum + counts[i])

\* OptimizeHuffmanForRle(length, counts): the counts after the call, with the
\* trimmed length and good_for_rle as steps 1 and 2 computed them
OptimizeHuffmanForRle(length, counts) ==
    LET n == TrimTrailingZeros(counts, length)
    IN  IF n = 0
        THEN [counts |-> counts, length |-> 0, good_for_rle |-> EmptyVec]
        ELSE LET good == MarkGoodForRle(counts, n, 0, counts[0], 0, Zeros(n))
             IN  [counts       |-> CollapseStrides(counts, n, good, 0, 0, counts[0], 0),
                  length       |-> n,
                  good_for_rle |-> good]

(***************************************************************************)
(* Callers of OptimizeHuffmanForRle: count arrays of up to MaxCounts        *)
(* entries, each 0, a small count, or a count 4 or more away from it.       *)
(***************************************************************************)
MaxCounts == 10
CountValues == {0, 1, 5}
\* the count arrays of up to max entries
CountArrays(max) == UNION {[0..(n - 1) -> CountValues] : n \in 0..max}

InitRle ==
    /\ pc = "call"
    /\ \E a \in CountArrays(MaxCounts) : call = [fn |-> "OptimizeHuffmanForRle", counts |-> a]
    /\ ret = <<>>
    /\ IdleCache
    /\ IdleStore

OptimizeForRle ==
    /\ pc = "call"
    /\ call.fn = "OptimizeHuffmanForRle"
    /\ ret' = OptimizeHuffmanForRle(VecLen(call.counts), call.counts)
    /\ pc' = "done"
    /\ UNCHANGED <<lmc, sublen, lastWrite, cacheOp, store, call>>

NextRle == OptimizeForRle

SpecRle == InitRle /\ [][NextRle]_vars

(***************************************************************************)
(* squeeze.rs                                                              *)
(***************************************************************************)
\* a slip: the boundary between the 8-bit and the 9-bit literals one too late
GetCostFixedLate(litlen, dist) ==
    IF dist = 0
    THEN IF litlen <= 144 THEN 8 ELSE 9
    ELSE LET dbits == ZopfliGetDistExtraBits(dist)
             lbits == ZopfliGetLengthExtraBits(litlen)
             lsym  == ZopfliGetLengthSymbol(litlen)
         IN  (IF lsym <= 280 THEN 7 ELSE 8) + 5 + dbits + lbits

\* GetCostFixed(litlen, dist, _): the result, a whole number of bits as c_double
GetCostFixed(litlen, dist) ==
    IF dist = 0
    THEN IF litlen <= 143 THEN 8 ELSE 9
    ELSE LET dbits == ZopfliGetDistExtraBits(dist)
             lbits == ZopfliGetLengthExtraBits(litlen)
             lsym  == ZopfliGetLengthSymbol(litlen)
         IN  (IF lsym <= 279 THEN 7 ELSE 8) + 5 + dbits + lbits

\* the first and the last distance of every distance symbol
BoundaryDists ==
    {d \in {Pow2(k) : k \in 0..15} \cup {Pow2(k) + 1 : k \in 0..15}
           \cup {3 * Pow2(k) : k \in 0..13} \cup {3 * Pow2(k) + 1 : k \in 0..13} :
        d <= 32768}

CostInputs ==
    {<<l, 0>> : l \in 0..255} \cup ((3..ZOPFLI_MAX_MATCH) \X BoundaryDists)

InitCost ==
    /\ pc = "call"
    /\ \E a \in CostInputs : call = [fn |-> "GetCostFixed", litlen |-> a[1], dist |-> a[2]]
    /\ ret = 0
    /\ IdleCache
    /\ IdleStore

CostFixed ==
    /\ pc = "call"
    /\ call.fn = "GetCostFixed"
    /\ ret' = GetCostFixed(call.litlen, call.dist)
    /\ pc' = "done"
    /\ UNCHANGED <<lmc, sublen, lastWrite, cacheOp, store, call>>

NextCost == CostFixed

SpecCost == InitCost /\ [][NextCost]_vars

(***************************************************************************)
(* Claims about the longest-match cache (SpecCache).                       *)
(***************************************************************************)
\* after ZopfliCleanCache no array of the cache holds a value the program wrote,
\* and the arrays stay freed
CleanedCacheUnspecified ==
    lmc.freed => /\ \A p \in Positions : /\ ZopfliCacheLengthAt(lmc, p) = Unspecified
                                        /\ ZopfliCacheDistAt(lmc, p) = Unspecified
                 /\ cacheOp.op \in {"clean", "read", "write", "ended"}

\* the first byte of slot j of position p
SlotStart(p, j) == ZOPFLI_CACHE_LENGTH * p * 3 + j * 3

\* the cache is in use: ZopfliCleanCache has not been called on it
CacheInUse == ~lmc.freed

\* C2: in a cache in use, reading position p back with the length L of its most
\* recent write recovers that write's distances for every length
\* 3..ZopfliMaxCachedSublen(p), whatever was written before at p or at other
\* positions.
C2_RoundTrip ==
    (/\ CacheInUse
     /\ cacheOp.op = "read"
     /\ lastWrite[cacheOp.pos].written
     /\ cacheOp.length = lastWrite[cacheOp.pos].length)
    => \A i \in 3..ZopfliMaxCachedSublen(lmc, cacheOp.pos) :
          sublen[i] = lastWrite[cacheOp.pos].sublen[i]

\* C2 witness: a read of a position written twice, the second write shorter than
\* the first, so that slots of the first write are still in the table
C2_Witness ==
    /\ CacheInUse
    /\ cacheOp.op = "read"
    /\ cacheOp.writes = 2
    /\ lastWrite[cacheOp.pos].written
    /\ cacheOp.length = lastWrite[cacheOp.pos].length
    /\ cacheOp.length = 9
    /\ lmc.sublen[SlotStart(cacheOp.pos, ZOPFLI_CACHE_LENGTH - 1) + 1] # 0
    /\ ZopfliMaxCachedSublen(lmc, cacheOp.pos) = 9
    /\ sublen[9] = lastWrite[cacheOp.pos].sublen[9]

\* C3: in a cache in use, right after ZopfliSublenToCache(v, p, L) with L >= 3,
\* ZopfliMaxCachedSublen(p) is at most L, is L when fewer than ZOPFLI_CACHE_LENGTH
\* entries were recorded, and is bestlength; the three assertions hold.
C3_MaxCachedSublen ==
    (CacheInUse /\ cacheOp.op = "write" /\ cacheOp.length >= 3)
    => /\ ZopfliMaxCachedSublen(lmc, cacheOp.pos) <= cacheOp.length
       /\ (cacheOp.j < ZOPFLI_CACHE_LENGTH
             => ZopfliMaxCachedSublen(lmc, cacheOp.pos) = cacheOp.length)
       /\ ZopfliMaxCachedSublen(lmc, cacheOp.pos) = cacheOp.bestlength
       /\ AssertsHold(cacheOp)

\* C3 witness: a write of fewer than ZOPFLI_CACHE_LENGTH entries over a position
\* whose last slot an earlier, longer write had filled
C3_Witness ==
    /\ CacheInUse
    /\ cacheOp.op = "write"
    /\ cacheOp.length = 9
    /\ cacheOp.j < ZOPFLI_CACHE_LENGTH
    /\ cacheOp.writes = 2
    /\ lmc.sublen[SlotStart(cacheOp.pos, ZOPFLI_CACHE_LENGTH - 1) + 1] # 0
    /\ ZopfliMaxCachedSublen(lmc, cacheOp.pos) = 9

\* C11: in a cache in use, every position that no ZopfliSublenToCache call with
\* length >= 3 has targeted is still as ZopfliLongestMatchCache::new left it:
\* length 1, dist 0, and ZopfliMaxCachedSublen 0, whatever was written at other
\* positions.
C11_UnwrittenStaysUnfilled ==
    \A p \in Positions :
        (CacheInUse /\ ~lastWrite[p].written)
        => /\ ZopfliCacheLengthAt(lmc, p) = 1
           /\ ZopfliCacheDistAt(lmc, p) = 0
           /\ ZopfliMaxCachedSublen(lmc, p) = 0

\* C11 witness: the last position was written with all its slots filled, then a
\* write of length 2 was refused at position 0, which is still not filled
C11_Witness ==
    /\ CacheInUse
    /\ cacheOp.op = "write"
    /\ cacheOp.pos = 0
    /\ cacheOp.length = 2
    /\ cacheOp.writes = 2
    /\ ~lastWrite[0].written
    /\ lastWrite[BlockSize - 1].written
    /\ ZopfliMaxCachedSublen(lmc, BlockSize - 1) = 10
    /\ ZopfliMaxCachedSublen(lmc, 0) = 0
    /\ ZopfliCacheLengthAt(lmc, 0) = 1

\* the length byte of slot j of position p
SlotLength(p, j) == lmc.sublen[SlotStart(p, j)]

\* the indices of v at which a write of length L records an entry
Transitions(v, L) == {i \in 3..L : i = L \/ v[i] # v[i + 1]}

\* the n-th smallest member of a set of integers, n >= 1
NthSmallest(S, n) == CHOOSE x \in S : Cardinality({y \in S : y < x}) = n - 1

\* the last slot of a written position, as C15 gives it
LastSlotAsStated(p) ==
    LET T == Transitions(lastWrite[p].sublen, lastWrite[p].length)
    IN  SlotLength(p, ZOPFLI_CACHE_LENGTH - 1)
          = IF Cardinality(T) < ZOPFLI_CACHE_LENGTH
            THEN lastWrite[p].length - 3
            ELSE NthSmallest(T, ZOPFLI_CACHE_LENGTH) - 3

\* C15, as stated: in a cache in use, at every written position the length bytes
\* of all ZOPFLI_CACHE_LENGTH slots are strictly increasing in slot order, and the last
\* slot holds L - 3 of the most recent write when it had fewer than
\* ZOPFLI_CACHE_LENGTH transitions, otherwise its K-th transition minus 3.
C15_AllSlotsIncreasing ==
    \A p \in Positions :
        (CacheInUse /\ lastWrite[p].written)
        => /\ \A j \in 0..(ZOPFLI_CACHE_LENGTH - 2) : SlotLength(p, j) < SlotLength(p, j + 1)
           /\ LastSlotAsStated(p)

\* C15, amended: in a cache in use, at every written position, with n the
\* number of transitions of the most recent write, slot j < min(n, K) holds the
\* (j+1)-th transition minus 3,
\* so these slots are strictly increasing; all K slots are strictly increasing
\* when n >= K; the last slot is as stated.  (With n < K the last slot repeats the
\* length of slot n - 1, and slots n .. K-2 keep what was there before.)
C15_RecordedSlotsIncreasing ==
    \A p \in Positions :
        (CacheInUse /\ lastWrite[p].written)
        => LET T == Transitions(lastWrite[p].sublen, lastWrite[p].length)
               n == Min(Cardinality(T), ZOPFLI_CACHE_LENGTH)
           IN  /\ \A j \in 0..(n - 1) : SlotLength(p, j) = NthSmallest(T, j + 1) - 3
               /\ \A j \in 0..(n - 2) : SlotLength(p, j) < SlotLength(p, j + 1)
               /\ LastSlotAsStated(p)

\* C15 witness: a write with a single transition over a position whose slots an
\* earlier write had all filled: slot 0 and the last slot hold L - 3, slot 1 is
\* the earlier write's
C15_Witness ==
    /\ CacheInUse
    /\ cacheOp.op = "write"
    /\ cacheOp.writes = 2
    /\ cacheOp.length = 9
    /\ cacheOp.j = 1
    /\ lastWrite[cacheOp.pos].written
    /\ SlotLength(cacheOp.pos, 0) = 6
    /\ SlotLength(cacheOp.pos, 1) = 1
    /\ SlotLength(cacheOp.pos, ZOPFLI_CACHE_LENGTH - 1) = 6

(***************************************************************************)
(* Claims about the LZ77 store (SpecStore).                                *)
(***************************************************************************)

\* the literal/length symbol of token i, from the token itself
TokenLLSymbol(s, i) ==
    IF s.dists[i] = 0 THEN s.litlens[i] ELSE ZopfliGetLengthSymbol(s.litlens[i])

\* the distance symbol of token i, from the token itself; -1 for a literal
TokenDSymbol(s, i) ==
    IF s.dists[i] = 0 THEN -1 ELSE ZopfliGetDistSymbol(s.dists[i])

\* the symbols of the tokens of s under symbolOf
UsedSymbols(s, symbolOf(_, _)) == {symbolOf(s, i) : i \in 0..(StoreSize(s) - 1)}

\* how many of the tokens 0 .. upto-1 have symbol sym under symbolOf; used is
\* UsedSymbols(s, symbolOf), a symbol outside it is counted without a scan
CountTokens(s, symbolOf(_, _), used, sym, upto) ==
    IF sym \in used
    THEN Cardinality({i \in 0..(upto - 1) : symbolOf(s, i) = sym})
    ELSE 0

\* C4: in a store that has not been freed, chunk c of ll_counts (d_counts) holds,
\* for every symbol, the number of tokens before the end of the chunk (or of the
\* store) that carry the symbol; literals add nothing to d_counts.
C4_CumulativeCounts ==
    LET n      == StoreSize(store)
        llUsed == UsedSymbols(store, TokenLLSymbol)
        dUsed  == UsedSymbols(store, TokenDSymbol)
    IN  pc = "store" =>
        /\ \A c \in 0..(CeilDiv(n, ZOPFLI_NUM_LL) - 1), sym \in 0..(ZOPFLI_NUM_LL - 1) :
              store.ll_counts[ZOPFLI_NUM_LL * c + sym]
                = CountTokens(store, TokenLLSymbol, llUsed, sym,
                              Min(n, ZOPFLI_NUM_LL * (c + 1)))
        /\ \A c \in 0..(CeilDiv(n, ZOPFLI_NUM_D) - 1), sym \in 0..(ZOPFLI_NUM_D - 1) :
              store.d_counts[ZOPFLI_NUM_D * c + sym]
                = CountTokens(store, TokenDSymbol, dUsed, sym,
                              Min(n, ZOPFLI_NUM_D * (c + 1)))

\* C4 witness: a store whose third chunk of ll_counts has just been started by
\* appended tokens, and holds the counts of all the tokens
C4_Witness ==
    /\ pc = "store"
    /\ StoreSize(store) = 2 * ZOPFLI_NUM_LL + 1
    /\ call.appends = 2
    /\ store.litlens[2 * ZOPFLI_NUM_LL] = 255
    /\ store.ll_counts[2 * ZOPFLI_NUM_LL + 255] >= 1
    /\ store.ll_counts[2 * ZOPFLI_NUM_LL + 97] >= 2 * (ZOPFLI_NUM_LL \div 7)
    /\ store.d_counts[ZOPFLI_NUM_D * 18 + 29] >= 2 * (ZOPFLI_NUM_LL \div 7)

\* the lengths of the two histograms, as C10 gives them
CountsLengths(s) ==
    /\ VecLen(s.ll_counts) = ZOPFLI_NUM_LL * CeilDiv(StoreSize(s), ZOPFLI_NUM_LL)
    /\ VecLen(s.d_counts) = ZOPFLI_NUM_D * CeilDiv(StoreSize(s), ZOPFLI_NUM_D)

\* C10: ll_counts.len() = 288 * ceil(size / 288) and d_counts.len() =
\* 32 * ceil(size / 32) in every store that has not been freed, and no append
\* decreases size, ll_counts.len() or d_counts.len().
C10_CountsLengths ==
    /\ [](pc = "store" => CountsLengths(store))
    /\ [][(pc = "store" /\ pc' = "store")
          => /\ StoreSize(store') >= StoreSize(store)
             /\ VecLen(store'.ll_counts) >= VecLen(store.ll_counts)
             /\ VecLen(store'.d_counts) >= VecLen(store.d_counts)]_vars

\* C10 witness: appends have taken the store across the chunk boundary at 288
C10_Witness ==
    /\ pc = "store"
    /\ StoreSize(store) = ZOPFLI_NUM_LL + 1
    /\ call.appends = 2
    /\ VecLen(store.ll_counts) = 2 * ZOPFLI_NUM_LL
    /\ VecLen(store.d_counts) = 10 * ZOPFLI_NUM_D

(***************************************************************************)
(* Claims about length_limited_code_lengths (SpecKatajainen).              *)
(***************************************************************************)
\* the number of non-zero frequencies
NumUsed(frequencies) == Cardinality({i \in DOMAIN frequencies : frequencies[i] # 0})

\* sum of f[i] * lengths[i]
RECURSIVE WeightedLength(_, _, _)
WeightedLength(f, lengths, n) ==
    IF n <= 0 THEN 0 ELSE f[n - 1] * lengths[n - 1] + WeightedLength(f, lengths, n - 1)

\* the Kraft sum of the used symbols, times 2^maxbits
RECURSIVE KraftScaled(_, _, _, _)
KraftScaled(f, lengths, maxbits, n) ==
    IF n <= 0 THEN 0
    ELSE (IF f[n - 1] # 0 THEN Pow2(maxbits - lengths[n - 1]) ELSE 0)
         + KraftScaled(f, lengths, maxbits, n - 1)

\* lengths is a code for f within maxbits bits
FeasibleLengths(f, lengths, maxbits) ==
    /\ DOMAIN lengths = DOMAIN f
    /\ \A i \in DOMAIN f : (lengths[i] = 0) <=> (f[i] = 0)
    /\ \A i \in DOMAIN f : f[i] # 0 => (1 <= lengths[i] /\ lengths[i] <= maxbits)
    /\ KraftScaled(f, lengths, maxbits, VecLen(f)) <= Pow2(maxbits)

PaperLengths3 == [i \in 0..5 |-> <<3, 3, 3, 3, 2, 2>>[i + 1]]
PaperLengths4 == [i \in 0..5 |-> <<4, 4, 3, 2, 2, 2>>[i + 1]]

\* C1: with at least two used symbols and 2^maxbits >= their number, the call
\* returns lengths that are 0 exactly for the unused symbols, within 1..maxbits,
\* satisfy Kraft, and have the least sum f[i]*L[i] of all such assignments; the
\* paper's frequencies give [3,3,3,3,2,2] for 3 bits and [4,4,3,2,2,2] for 4.
C1_OptimalLengths ==
    (/\ pc = "done"
     /\ call.fn = "length_limited_code_lengths"
     /\ NumUsed(call.frequencies) >= 2
     /\ Pow2(call.maxbits) >= NumUsed(call.frequencies))
    => LET f == call.frequencies
           b == call.maxbits
       IN  /\ ret.outcome = "returned"
           /\ FeasibleLengths(f, ret.lengths, b)
           /\ \A other \in [DOMAIN f -> 0..b] :
                 FeasibleLengths(f, other, b)
                   => WeightedLength(f, ret.lengths, VecLen(f))
                        <= WeightedLength(f, other, VecLen(f))
           /\ (f = PaperFrequencies /\ b = 3) => ret.lengths = PaperLengths3
           /\ (f = PaperFrequencies /\ b = 4) => ret.lengths = PaperLengths4

\* C8: with more used symbols than 2^maxbits, the call does not return an
\* ordinary array of code lengths.
C8_InfeasibleReported ==
    (/\ pc = "done"
     /\ call.fn = "length_limited_code_lengths"
     /\ NumUsed(call.frequencies) > Pow2(call.maxbits))
    => ret.outcome # "returned"

\* C9: with at most two used symbols and maxbits >= 1, the call returns, and
\* gives length 1 to every used symbol and 0 to every other.
C9_FewSymbols ==
    (/\ pc = "done"
     /\ call.fn = "length_limited_code_lengths"
     /\ NumUsed(call.frequencies) <= 2
     /\ call.maxbits >= 1)
    => /\ ret.outcome = "returned"
       /\ DOMAIN ret.lengths = DOMAIN call.frequencies
       /\ \A i \in DOMAIN call.frequencies :
             ret.lengths[i] = IF call.frequencies[i] # 0 THEN 1 ELSE 0

(***************************************************************************)
(* Claims about the distance-code patch (SpecPatch) and the fixed-tree     *)
(* cost model (SpecCost).                                                  *)
(***************************************************************************)
\* the entries among the first 30 that are not zero
NonZeroCodes(d_lengths) == {i \in 0..29 : d_lengths[i] # 0}

\* C6: after PatchDistanceCodesForBuggyDecoders at least two of the first 30
\* entries are non-zero; all-zero input becomes [1,1,0,...]; an input whose only
\* non-zero entry is at index 1 gets index 0 set to 1; an input with two or more
\* non-zero entries among the first 30 is unchanged.
C6_TwoDistanceCodes ==
    (pc = "done" /\ call.fn = "PatchDistanceCodesForBuggyDecoders")
    => LET d == call.d_lengths
       IN  /\ Cardinality(NonZeroCodes(ret)) >= 2
           /\ DOMAIN ret = DOMAIN d
           /\ (\A i \in DOMAIN d : d[i] = 0)
                 => ret = [i \in DOMAIN d |-> IF i \in {0, 1} THEN 1 ELSE 0]
           /\ ({i \in DOMAIN d : d[i] # 0} = {1})
                 => ret = [i \in DOMAIN d |-> IF i = 0 THEN 1 ELSE d[i]]
           /\ Cardinality(NonZeroCodes(d)) >= 2 => ret = d

\* C6 witness: the only used code among the first 30 is not code 0 or 1, the
\* unused codes 30 and 31 have lengths, and the call has set code 0
C6_Witness ==
    /\ pc = "done"
    /\ call.fn = "PatchDistanceCodesForBuggyDecoders"
    /\ NonZeroCodes(call.d_lengths) = {29}
    /\ call.d_lengths[30] # 0
    /\ call.d_lengths[31] # 0
    /\ NonZeroCodes(ret) = {0, 29}

\* C7: GetCostFixed is the cost under the tables of GetFixedTree: the code length
\* of the literal, or of the length symbol plus that of the distance symbol plus
\* the extra bits of both; (140,0) costs 8, (200,0) 9, (3,1) 12, (258,32768) 26.
C7_CostMatchesFixedTree ==
    (pc = "done" /\ call.fn = "GetCostFixed")
    => LET t    == GetFixedTree
           lsym == ZopfliGetLengthSymbol(call.litlen)
           dsym == ZopfliGetDistSymbol(call.dist)
       IN  /\ call.dist = 0 => ret = t.ll_lengths[call.litlen]
           /\ call.dist > 0 =>
                 ret = t.ll_lengths[lsym] + t.d_lengths[dsym]
                       + ZopfliGetLengthSymbolExtraBits(lsym)
                       + ZopfliGetDistSymbolExtraBits(dsym)
           /\ (call.litlen = 140 /\ call.dist = 0) => ret = 8
           /\ (call.litlen = 200 /\ call.dist = 0) => ret = 9
           /\ (call.litlen = 3 /\ call.dist = 1) => ret = 12
           /\ (call.litlen = ZOPFLI_MAX_MATCH /\ call.dist = 32768) => ret = 26

\* C7 witness: the longest match at the largest distance has been priced
C7_Witness ==
    /\ pc = "done"
    /\ call.fn = "GetCostFixed"
    /\ call.litlen = ZOPFLI_MAX_MATCH
    /\ call.dist = 32768
    /\ ret = 26

(***************************************************************************)
(* Claims about the block symbol size (SpecBlockSize).                     *)
(***************************************************************************)
\* the histogram of the tokens lstart .. lend-1, recounted from the tokens
RecountedHistogram(s, lstart, lend) ==
    LET llUsed == UsedSymbols(s, TokenLLSymbol)
        dUsed  == UsedSymbols(s, TokenDSymbol)
    IN  [ll |-> [sym \in 0..(ZOPFLI_NUM_LL - 1) |->
                   IF sym \in llUsed
                   THEN Cardinality({i \in lstart..(lend - 1) : TokenLLSymbol(s, i) = sym})
                   ELSE 0],
         d  |-> [sym \in 0..(ZOPFLI_NUM_D - 1) |->
                   IF sym \in dUsed
                   THEN Cardinality({i \in lstart..(lend - 1) : TokenDSymbol(s, i) = sym})
                   ELSE 0]]

\* C5: on every store and range the token-by-token computation returns the size
\* computed from the true histogram of the range, and CalculateBlockSymbolSize
\* returns that value whichever of the two its threshold selects.
C5_SmallEqualsLarge ==
    (pc = "done" /\ call.fn = "CalculateBlockSymbolSize")
    => LET h == RecountedHistogram(store, call.lstart, call.lend)
       IN  /\ ret.small.outcome = "returned"
           /\ ret.small.size = BlockSymbolSizeFromCounts(h.ll, h.d, call.ll_lengths,
                                                          call.d_lengths)
           /\ ret.size = ret.small

\* block sizes of the calls that return: each return gives the size computed from the
\* true histogram; a call fails only in the import of the store
BlockSizesAgreeWhenReturned ==
    (pc = "done" /\ call.fn = "CalculateBlockSymbolSize")
    => LET h    == RecountedHistogram(store, call.lstart, call.lend)
           bits == BlockSymbolSizeFromCounts(h.ll, h.d, call.ll_lengths, call.d_lengths)
           over == StoreSize(store) % ZOPFLI_NUM_D = 0
       IN  /\ ret.small.outcome \in {"returned", "fault"}
           /\ ret.size.outcome \in {"returned", "fault"}
           /\ ret.small.outcome = "returned" => ret.small.size = bits
           /\ ret.size.outcome = "returned" => ret.size.size = bits
           /\ ~over => (ret.small.outcome = "returned" /\ ret.size.outcome = "returned")
           /\ StoreSize(store) = 0 => (ret.small.outcome = "fault" /\ ret.size.outcome = "fault")

(***************************************************************************)
(* Claims about OptimizeHuffmanForRle (SpecRle).                            *)
(***************************************************************************)
\* i is in a run of at least 5 equal zero counts, or of at least 7 equal
\* non-zero counts, within the first n entries of c
InGoodRun(c, n, i) ==
    \E lo \in 0..i, hi \in i..(n - 1) :
        /\ \A k \in lo..hi : c[k] = c[i]
        /\ hi - lo + 1 >= (IF c[i] = 0 THEN 5 ELSE 7)

\* C12: every position that step 2 marks good_for_rle holds the same count after
\* the call as before it.
C12_GoodRunsKept ==
    (pc = "done" /\ call.fn = "OptimizeHuffmanForRle")
    => \A i \in 0..(ret.length - 1) :
          (ret.good_for_rle[i] # 0 /\ InGoodRun(call.counts, ret.length, i))
          => ret.counts[i] = call.counts[i]

\* the index of the last non-zero count, -1 when there is none
LastNonZero(c) ==
    IF \A i \in DOMAIN c : c[i] = 0 THEN -1
    ELSE CHOOSE i \in DOMAIN c : c[i] # 0 /\ \A k \in DOMAIN c : k > i => c[k] = 0

\* C13: after the call every entry past the last non-zero count of the input is
\* still 0, the array has the length it had, and an empty or all-zero array is
\* unchanged.
C13_TrailingZerosKept ==
    (pc = "done" /\ call.fn = "OptimizeHuffmanForRle")
    => /\ DOMAIN ret.counts = DOMAIN call.counts
       /\ \A i \in DOMAIN call.counts : i > LastNonZero(call.counts) => ret.counts[i] = 0
       /\ LastNonZero(call.counts) = -1 => ret.counts = call.counts

\* C13 witness: a stride that ends at the last non-zero count was collapsed to a
\* new count, and the zeros after it are still zeros
C13_Witness ==
    /\ pc = "done"
    /\ call.fn = "OptimizeHuffmanForRle"
    /\ VecLen(call.counts) >= 6
    /\ LastNonZero(call.counts) = VecLen(call.counts) - 3
    /\ ret.counts[LastNonZero(call.counts)] # call.counts[LastNonZero(call.counts)]
    /\ ret.counts[VecLen(call.counts) - 1] = 0
    /\ ret.counts[VecLen(call.counts) - 2] = 0

(***************************************************************************)
(* Claims about ExtractBitLengths (SpecExtract).                           *)
(***************************************************************************)
\* the number of Nodes of the chain of a call, and the count of its j-th Node
ChainLen(c) == VecLen(c.pool)
NodesAtLeast(c, r) == Cardinality({j \in DOMAIN c.pool : c.pool[j].count >= r})
HeadCount(c) == IF c.chain = Null THEN 0 ELSE c.pool[c.chain].count

\* C14: for a chain of at most 15 Nodes with non-increasing counts the call
\* returns, the leaf of every rank r in 1..c_1 has as its length the number of
\* Nodes whose count is at least r, and every other entry of bitlengths is as
\* it was.
C14_ExtractBitLengths ==
    (pc = "done" /\ call.fn = "ExtractBitLengths" /\ ChainLen(call) <= ChainCountsLen - 1)
    => /\ ret.outcome = "returned"
       /\ DOMAIN ret.bitlengths = DOMAIN call.bitlengths
       /\ \A r \in 1..HeadCount(call) :
             ret.bitlengths[call.leaves[r - 1].count] = NodesAtLeast(call, r)
       /\ \A s \in DOMAIN call.bitlengths :
             (\A r \in 1..HeadCount(call) : call.leaves[r - 1].count # s)
             => ret.bitlengths[s] = call.bitlengths[s]

\* C14 witness: a chain of 15 Nodes over three leaves; the lightest leaf gets
\* length 15, the heaviest length 1, and the symbol without a leaf keeps 16
C14_Witness ==
    /\ pc = "done"
    /\ call.fn = "ExtractBitLengths"
    /\ ChainLen(call) = ChainCountsLen - 1
    /\ VecLen(call.leaves) = 3
    /\ HeadCount(call) = 3
    /\ call.leaves[0].count = 1
    /\ ret.outcome = "returned"
    /\ ret.bitlengths[call.leaves[0].count] = ChainCountsLen - 1
    /\ ret.bitlengths[call.leaves[2].count] = 1
    /\ ret.bitlengths[call.leaves[1].count] = 2
    /\ ret.bitlengths[0] = 16

(***************************************************************************)
(* Claims about export and import of a store (SpecExport).                 *)
(***************************************************************************)
\* C16: the import of an exported store returns, reads 288 * ceil(n / 288)
\* entries of ll_counts and 32 * ceil(n / 32) entries of d_counts, and makes a
\* store equal to the exported one in every field.
C16_ExportImportIdentity ==
    pc = "imported"
    => /\ ret.outcome = "returned"
       /\ ret.ll_read = ZOPFLI_NUM_LL * CeilDiv(StoreSize(store), ZOPFLI_NUM_LL)
       /\ ret.d_read = ZOPFLI_NUM_D * CeilDiv(StoreSize(store), ZOPFLI_NUM_D)
       /\ ret.store = store

\* the import of a struct of null pointers returns the empty store
ZeroedImportIsEmpty ==
    pc = "imported_zeroed" => (ret.outcome = "returned" /\ ret.store = Lz77StoreNew)

\* a store that was freed is never appended to or exported again: the call made
\* through its pointer ends the program or leaves it undefined
FreedStoreStaysFreed ==
    [][(pc \in FreedPcs) => (/\ pc' \in {pc, "ended", "undefined"}
                              /\ store' = store
                              /\ ret' = ret)]_vars

\* the import fails or over-reads only when the size is a multiple of a chunk
\* size; otherwise it returns the exported store
ImportExactOffChunk ==
    (pc = "imported" /\ StoreSize(store) % ZOPFLI_NUM_D # 0)
    => (ret.outcome = "returned" /\ ret.store = store)

====
